---- MODULE Spec2Model ----
(***************************************************************************)
(* InsightQA backend: ingestion into per-knowledge-base stores, scoped     *)
(* retrieval, the test-case and Selenium-script generation engines, and    *)
(* knowledge-base deletion.                                                *)
(*                                                                         *)
(* Shared stores: the SQLite tables (kb_rows, doc_rows), the Chroma        *)
(* collection (coll) and the assets directory tree (dirs, asset_files).    *)
(* Requests run concurrently (ingest on the event loop, the sync handlers  *)
(* on worker threads), so each handler is split at the points where it     *)
(* touches a shared store.                                                 *)
(***************************************************************************)
EXTENDS Integers, Sequences, FiniteSets, TLC

\* ---------------------------------------------------------------- bounds
MaxFiles == 2
MaxTopK == 1
MaxTextLen == 1500

\* ------------------------------------------------------ program constants
CHUNK_SIZE == 800
OVERLAP == 150

\* ------------------------------------------------------------ input sets
\* The uuid4 values handed out to knowledge bases, in creation order. One
\* knowledge base keeps every interleaving of its ingest, its deletion and
\* the generation requests within reach of an exhaustive search.
KbIdPool == <<"kb-1">>

\* kb_id values a request can carry: the empty string, the ids that are
\* issued, and one id that never is.
ReqKbIds == {"", "kb-none"} \cup {KbIdPool[n] : n \in 1..Len(KbIdPool)}

Filenames == {"ui.html", "LOGIN.HTM", "spec.md"}

\* Lengths of the text parse_any returns for an uploaded file.
TextLens == {0, 700}

UploadFiles == [filename : Filenames, len : TextLens]

Roles == {"main", "support"}

None == "None"
Absent == "<absent>"
Unbound == "<unbound>"

\* ------------------------------------------------------------- helpers
Min(a, b) == IF a < b THEN a ELSE b

SeqToSet(s) == {s[i] : i \in 1..Len(s)}

RECURSIVE SeqFilterKb(_, _)
\* rows of s whose kb_id differs from k, in order
SeqFilterKb(s, k) ==
    IF s = <<>> THEN <<>>
    ELSE IF Head(s).kb_id = k THEN SeqFilterKb(Tail(s), k)
         ELSE <<Head(s)>> \o SeqFilterKb(Tail(s), k)

\* Path(filename).suffix
Suffix(filename) ==
    CASE filename = "ui.html" -> ".html"
      [] filename = "LOGIN.HTM" -> ".HTM"
      [] filename = "spec.md" -> ".md"

\* str.lower() on the suffixes above
Lower(s) ==
    CASE s = ".HTM" -> ".htm"
      [] OTHER -> s

\* a mutant of IsHtml: the suffix is compared without lower()
IsHtmlCaseSensitive(filename) == Suffix(filename) \in {".html", ".htm"}

IsHtml(filename) == Lower(Suffix(filename)) \in {".html", ".htm"}

\* str(uuid.uuid4()) for the n-th chunk of an ingestion: unique per chunk
ChunkId(kb, n) == <<kb, n>>

RECURSIVE ChunkLoopStopAtOverlap(_, _, _, _, _, _)
\* a mutant of ChunkLoop: the loop stops once only the overlap is left
ChunkLoopStopAtOverlap(len, start_idx, acc, filename, kb, role) ==
    IF start_idx + OVERLAP < len
    THEN ChunkLoopStopAtOverlap(len, start_idx + (CHUNK_SIZE - OVERLAP),
                   Append(acc, [id |-> ChunkId(kb, Len(acc) + 1),
                                document |-> <<start_idx, Min(start_idx + CHUNK_SIZE, len)>>,
                                source_document |-> filename,
                                chunk_index |-> (Len(acc) + 1) - 1,
                                kb_id |-> kb,
                                doc_role |-> role]),
                   filename, kb, role)
    ELSE acc

RECURSIVE ChunkLoop(_, _, _, _, _, _)
\* the while loop of ingest: acc is docs_chunks/docs_meta/ids zipped, a
\* chunk's text is the slice <<start, end>> of the parsed text
ChunkLoop(len, start_idx, acc, filename, kb, role) ==
    IF start_idx < len
    THEN ChunkLoop(len, start_idx + (CHUNK_SIZE - OVERLAP),
                   Append(acc, [id |-> ChunkId(kb, Len(acc) + 1),
                                document |-> <<start_idx, Min(start_idx + CHUNK_SIZE, len)>>,
                                source_document |-> filename,
                                chunk_index |-> (Len(acc) + 1) - 1,
                                kb_id |-> kb,
                                doc_role |-> role]),
                   filename, kb, role)
    ELSE acc

\* ------------------------------------------------------------- state
VARIABLES
    kb_rows,      \* knowledge_bases table: set of ids
    doc_rows,     \* documents table, in insertion (Document.id) order
    coll,         \* the Chroma collection: set of chunk records
    dirs,         \* kb ids that have a directory assets/<kb_id>
    asset_files,  \* <<kb_id, filename>> of files under assets/
    kb_count,     \* number of uuids handed out to knowledge bases
    ing,          \* the ingest request in flight
    del,          \* the delete_kb request in flight
    gen,          \* the generation request in flight
    deleted_ok    \* kb ids for which delete_kb returned status ok

vars == <<kb_rows, doc_rows, coll, dirs, asset_files, kb_count, ing, del, gen, deleted_ok>>

IngIdle ==
    [pc |-> "idle", kb_id |-> None, files |-> <<>>, i |-> 1,
     primary_html_set |-> FALSE, chunks |-> <<>>, pending |-> <<>>]

\* removed: whether coll.delete found a chunk to remove
DelIdle == [pc |-> "idle", kb_id |-> None, removed |-> FALSE]

GenIdle ==
    [pc |-> "idle", kind |-> None, kb_id |-> None, html_filename |-> None,
     resolved |-> FALSE, ext |-> <<>>, calls |-> 0, chunks |-> {},
     raw |-> None, e1 |-> Unbound, repaired |-> None, out |-> None]

Init ==
    /\ kb_rows = {}
    /\ doc_rows = <<>>
    /\ coll = {}
    /\ dirs = {}
    /\ asset_files = {}
    /\ kb_count = 0
    /\ ing = IngIdle
    /\ del = DelIdle
    /\ gen = GenIdle
    /\ deleted_ok = {}

\* ------------------------------------------------------------- ingest
\* POST /ingest up to the first commit: a fresh id, the registry row.
IngestStart(files) ==
    /\ ing.pc = "idle"
    /\ files # <<>>
    /\ kb_count < Len(KbIdPool)
    /\ kb_count' = kb_count + 1
    /\ kb_rows' = kb_rows \cup {KbIdPool[kb_count + 1]}
    /\ ing' = [IngIdle EXCEPT !.pc = "mkdir", !.kb_id = KbIdPool[kb_count + 1],
                              !.files = files]
    /\ UNCHANGED <<doc_rows, coll, dirs, asset_files, del, gen, deleted_ok>>

\* kb_dir.mkdir(parents=True, exist_ok=True)
IngestMkdir ==
    /\ ing.pc = "mkdir"
    /\ dirs' = dirs \cup {ing.kb_id}
    /\ ing' = [ing EXCEPT !.pc = "files"]
    /\ UNCHANGED <<kb_rows, doc_rows, coll, asset_files, kb_count, del, gen, deleted_ok>>

\* One iteration of `for f in files`: save the file, add the Document row to
\* the session, chunk the parsed text. write_bytes raises when the directory
\* is gone; the request then ends and the session's pending rows are dropped.
IngestFile ==
    /\ ing.pc = "files"
    /\ LET f == ing.files[ing.i]
           is_html == IsHtml(f.filename)
           role == IF is_html /\ ~ing.primary_html_set THEN "main" ELSE "support"
           is_primary_html == is_html /\ ~ing.primary_html_set
           doc_row == [kb_id |-> ing.kb_id, filename |-> f.filename, role |-> role,
                       is_html |-> is_html, is_primary_html |-> is_primary_html]
       IN IF ing.kb_id \notin dirs
          THEN /\ ing' = IngIdle
               /\ UNCHANGED asset_files
          ELSE /\ asset_files' = asset_files \cup {<<ing.kb_id, f.filename>>}
               /\ ing' = [ing EXCEPT
                            !.pending = Append(@, doc_row),
                            !.primary_html_set = IF is_primary_html THEN TRUE ELSE @,
                            !.chunks = ChunkLoop(f.len, 0, @, f.filename, ing.kb_id, role),
                            !.i = @ + 1,
                            !.pc = IF ing.i = Len(ing.files) THEN "commit" ELSE "files"]
    /\ UNCHANGED <<kb_rows, doc_rows, coll, dirs, kb_count, del, gen, deleted_ok>>

\* db.commit() after the loop: the Document rows become visible.
IngestCommit ==
    /\ ing.pc = "commit"
    /\ doc_rows' = doc_rows \o ing.pending
    /\ ing' = [ing EXCEPT !.pc = "add"]
    /\ UNCHANGED <<kb_rows, coll, dirs, asset_files, kb_count, del, gen, deleted_ok>>

\* add_chunks: nothing for an empty list, else embed and collection.add.
add_chunks(chunks) == IF chunks = <<>> THEN coll ELSE coll \cup SeqToSet(chunks)

IngestAddChunks ==
    /\ ing.pc = "add"
    /\ coll' = add_chunks(ing.chunks)
    /\ ing' = IngIdle
    /\ UNCHANGED <<kb_rows, doc_rows, dirs, asset_files, kb_count, del, gen, deleted_ok>>

\* embed_texts raises inside add_chunks (missing key, non-200 reply).
IngestAddFail ==
    /\ ing.pc = "add"
    /\ ing.chunks # <<>>
    /\ ing' = IngIdle
    /\ UNCHANGED <<kb_rows, doc_rows, coll, dirs, asset_files, kb_count, del, gen, deleted_ok>>

\* ------------------------------------------------------------- delete_kb
\* a mutant of DeleteDb: the Document rows are deleted and committed, the
\* registry row is kept
DeleteDocsOnly(kb_id) ==
    /\ del.pc = "idle"
    /\ kb_id \in kb_rows
    /\ doc_rows' = SeqFilterKb(doc_rows, kb_id)
    /\ del' = [DelIdle EXCEPT !.pc = "vec", !.kb_id = kb_id]
    /\ UNCHANGED <<kb_rows, coll, dirs, asset_files, kb_count, ing, gen, deleted_ok>>

\* POST /kb/delete up to db.commit(): 404 unless the registry row exists;
\* the Document rows of kb_id and the registry row are deleted together.
DeleteDb(kb_id) ==
    /\ del.pc = "idle"
    /\ kb_id \in kb_rows
    /\ doc_rows' = SeqFilterKb(doc_rows, kb_id)
    /\ kb_rows' = kb_rows \ {kb_id}
    /\ del' = [DelIdle EXCEPT !.pc = "vec", !.kb_id = kb_id]
    /\ UNCHANGED <<coll, dirs, asset_files, kb_count, ing, gen, deleted_ok>>

\* coll.delete(where={"kb_id": kb_id})
DeleteVectors ==
    /\ del.pc = "vec"
    /\ coll' = {c \in coll : c.kb_id # del.kb_id}
    /\ del' = [del EXCEPT !.pc = "files",
                           !.removed = \E c \in coll : c.kb_id = del.kb_id]
    /\ UNCHANGED <<kb_rows, doc_rows, dirs, asset_files, kb_count, ing, gen, deleted_ok>>

\* shutil.rmtree(assets/<kb_id>, ignore_errors=True), then the ok response
DeleteFiles ==
    /\ del.pc = "files"
    /\ dirs' = dirs \ {del.kb_id}
    /\ asset_files' = {f \in asset_files : f[1] # del.kb_id}
    /\ deleted_ok' = deleted_ok \cup {del.kb_id}
    /\ del' = DelIdle
    /\ UNCHANGED <<kb_rows, doc_rows, coll, kb_count, ing, gen>>

\* The worker dies between two steps of delete_kb: no later step runs.
DeleteCrash ==
    /\ del.pc \in {"vec", "files"}
    /\ del' = DelIdle
    /\ UNCHANGED <<kb_rows, doc_rows, coll, dirs, asset_files, kb_count, ing, gen, deleted_ok>>

\* GET /kb/list: the ids listed (one entry per registry row)
list_kbs == kb_rows

\* ------------------------------------------------------------- retrieval
\* `if kb_id:` for an optional string: None and "" are both false
TruthyStr(x) == x # None /\ x # ""

\* `if doc_roles:` for an optional list: None and [] are both false, and
\* both are written <<>> here
TruthyList(x) == x # <<>>

Eq(key, value) == [op |-> "eq", key |-> key, value |-> value, args |-> <<>>]
Or(args) == [op |-> "$or", key |-> None, value |-> None, args |-> args]
And(args) == [op |-> "$and", key |-> None, value |-> None, args |-> args]
NoWhere == [op |-> "none", key |-> None, value |-> None, args |-> <<>>]

\* the `where` argument query builds from (kb_id, doc_roles)
BuildWhere(kb_id, doc_roles) ==
    LET kb_clause == IF TruthyStr(kb_id) THEN <<Eq("kb_id", kb_id)>> ELSE <<>>
        role_clause ==
            IF TruthyList(doc_roles)
            THEN IF Len(doc_roles) = 1
                 THEN <<Eq("doc_role", doc_roles[1])>>
                 ELSE <<Or([i \in 1..Len(doc_roles) |-> Eq("doc_role", doc_roles[i])])>>
            ELSE <<>>
        clauses == kb_clause \o role_clause
    IN IF Len(clauses) = 1 THEN clauses[1]
       ELSE IF Len(clauses) > 1 THEN And(clauses)
       ELSE NoWhere

RECURSIVE Matches(_, _)
\* a mutant of Matches: a chunk passes $and when any one clause accepts it
MatchesAnyClause(where, c) ==
    CASE where.op = "none" -> TRUE
      [] where.op = "eq" ->
            IF where.key = "kb_id" THEN c.kb_id = where.value
            ELSE c.doc_role = where.value
      [] where.op \in {"$or", "$and"} ->
            \E i \in 1..Len(where.args) : Matches(where.args[i], c)

\* Chroma's metadata filter applied to one chunk
Matches(where, c) ==
    CASE where.op = "none" -> TRUE
      [] where.op = "eq" ->
            IF where.key = "kb_id" THEN c.kb_id = where.value
            ELSE c.doc_role = where.value
      [] where.op = "$or" -> \E i \in 1..Len(where.args) : Matches(where.args[i], c)
      [] where.op = "$and" -> \A i \in 1..Len(where.args) : Matches(where.args[i], c)

\* collection.query(n_results=top_k, where=...): the results it can return.
\* The distance order is the embedding's, so any top_k of the chunks that
\* pass the filter can be the nearest ones.
QueryResults(top_k, kb_id, doc_roles) ==
    LET cand == {c \in coll : Matches(BuildWhere(kb_id, doc_roles), c)}
    IN {r \in SUBSET cand : Cardinality(r) = Min(top_k, Cardinality(cand))}

\* ------------------------------------------------------------- model replies
\* chat raises LLMError, or returns a text (~~~ stands for a code fence)
LLMError == [raised |-> TRUE, text |-> "LLMError"]

FencedJson == "~~~json [1, 2,] ~~~"
PlainJson == "[3]"
Prose == "Here are the test cases"

TcReplies ==
    {LLMError} \cup {[raised |-> FALSE, text |-> t] : t \in {FencedJson, PlainJson, Prose}}

FencedCode == "~~~python def run_test(): pass ~~~"
NoEntryCode == "print(1)"

ScReplies == {LLMError} \cup {[raised |-> FALSE, text |-> t] : t \in {FencedCode, NoEntryCode}}

\* a mutant of _clean_and_parse_json: json.loads on the reply as it is
ParseStrict(text) ==
    CASE text = PlainJson -> [ok |-> TRUE, value |-> "[3]"]
      [] OTHER -> [ok |-> FALSE, value |-> "Expecting value"]

\* _clean_and_parse_json on the replies above: the parsed value or the
\* ValueError it raises
_clean_and_parse_json(text) ==
    CASE text = FencedJson -> [ok |-> TRUE, value |-> "[1, 2]"]
      [] text = PlainJson -> [ok |-> TRUE, value |-> "[3]"]
      [] OTHER -> [ok |-> FALSE, value |-> "No JSON array found."]

\* clean_code on the replies above
clean_code(raw) ==
    CASE raw = FencedCode -> "def run_test(): pass"
      [] OTHER -> raw

\* "def run_test" in cleaned
HasEntryPoint(cleaned) == cleaned = "def run_test(): pass"

\* `except Exception as e1: pass`: Python deletes the name e1 when the
\* except clause ends, so e1 is unbound in the code after it.
AfterExceptClause(e1) == Unbound

\* a mutant of AfterLLMError: the repair call is made all the same
RepairAfterLLMError == "repair"

\* where generate_testcases_rag goes after the first call raised LLMError:
\* it returns
AfterLLMError == "done"

\* a mutant of RepairFailedScript: the marker without the code
RepairFailedMarkerOnly(cleaned) == <<"# Failed to generate valid code.">>

\* "# Failed to generate valid code.\n" + cleaned
RepairFailedScript(cleaned) == <<"# Failed to generate valid code.", cleaned>>

\* build_prompt: the instructions, the user request and one context block
\* (source_document, document) per retrieved chunk
build_prompt(chunks) ==
    [rules |-> "ONLY a valid JSON array", user_query |-> "query",
     context |-> {<<c.source_document, c.document>> : c \in chunks}]

\* where generate_testcases_rag goes after the first reply failed to parse
AfterParseFailure == "repair"

\* a mutant of AfterRepair: repair until the reply parses
RepairUntilParsed(ok) == IF ok THEN "done" ELSE "repair"

\* where generate_testcases_rag goes after the repair attempt: it returns
AfterRepair(ok) == "done"

\* ------------------------------------------------------------- generation
NoOut ==
    [tag |-> None, json_valid |-> FALSE, error |-> Absent, testcases |-> Absent,
     raw_llm_output |-> Absent, repaired_output |-> Absent, retrieved_chunks |-> {},
     prompt_used |-> Absent, script |-> Absent]

\* POST /agent/testcases, through step 1 of generate_testcases_rag: the
\* query embedding and the scoped collection query.
TcStart(kb_id, top_k) ==
    /\ gen.pc = "idle"
    /\ \E r \in QueryResults(top_k, kb_id, <<"main", "support">>) :
         gen' = [GenIdle EXCEPT !.pc = "chat1", !.kind = "tc", !.kb_id = kb_id,
                                !.resolved = (kb_id \in kb_rows),
                                !.ext = <<"embed", "query">>, !.chunks = r]
    /\ UNCHANGED <<kb_rows, doc_rows, coll, dirs, asset_files, kb_count, ing, del, deleted_ok>>

\* embed_text raises inside query: the error leaves generate_testcases_rag.
TcEmbedFail(kb_id) ==
    /\ gen.pc = "idle"
    /\ gen' = [GenIdle EXCEPT !.pc = "done", !.kind = "tc", !.kb_id = kb_id,
                              !.resolved = (kb_id \in kb_rows), !.ext = <<"embed">>,
                              !.out = [NoOut EXCEPT !.tag = "Raised", !.error = "RuntimeError"]]
    /\ UNCHANGED <<kb_rows, doc_rows, coll, dirs, asset_files, kb_count, ing, del, deleted_ok>>

\* Steps 3 and 4: the first model call and the parse of its reply.
TcChat1(r) ==
    /\ gen.pc = "chat1"
    /\ gen.kind = "tc"
    /\ LET parsed == _clean_and_parse_json(r.text)
           g == [gen EXCEPT !.calls = @ + 1, !.ext = Append(@, "chat")]
       IN gen' =
            IF r.raised
            THEN [g EXCEPT !.pc = AfterLLMError,
                           !.out = [NoOut EXCEPT !.tag = "Failure",
                                                 !.error = "LLM Error",
                                                 !.raw_llm_output = None,
                                                 !.retrieved_chunks = gen.chunks,
                                                 !.prompt_used = build_prompt(gen.chunks)]]
            ELSE IF parsed.ok
            THEN [g EXCEPT !.pc = "done",
                           !.out = [NoOut EXCEPT !.tag = "Success",
                                                 !.json_valid = TRUE,
                                                 !.testcases = parsed.value,
                                                 !.raw_llm_output = r.text,
                                                 !.retrieved_chunks = gen.chunks,
                                                 !.prompt_used = build_prompt(gen.chunks)]]
            ELSE [g EXCEPT !.pc = AfterParseFailure, !.raw = r.text,
                           !.e1 = AfterExceptClause(parsed.value)]
    /\ UNCHANGED <<kb_rows, doc_rows, coll, dirs, asset_files, kb_count, ing, del, deleted_ok>>

\* Step 5: the repair call and the parse of its reply. Any exception of the
\* two goes to the last handler, whose f-string reads e1.
TcRepair(r) ==
    /\ gen.pc = "repair"
    /\ gen.kind = "tc"
    /\ LET parsed == _clean_and_parse_json(r.text)
           g == [gen EXCEPT !.calls = @ + 1, !.ext = Append(@, "chat"),
                            !.repaired = r.text,
                            !.pc = AfterRepair(~r.raised /\ parsed.ok)]
       IN gen' =
            IF ~r.raised /\ parsed.ok
            THEN [g EXCEPT !.out = [NoOut EXCEPT !.tag = "RepairedSuccess",
                                                 !.json_valid = TRUE,
                                                 !.testcases = parsed.value,
                                                 !.raw_llm_output = gen.raw,
                                                 !.repaired_output = r.text,
                                                 !.retrieved_chunks = gen.chunks,
                                                 !.prompt_used = build_prompt(gen.chunks)]]
            ELSE IF gen.e1 = Unbound
            THEN [g EXCEPT !.out = [NoOut EXCEPT !.tag = "Raised",
                                                 !.error = "UnboundLocalError"]]
            ELSE [g EXCEPT !.out = [NoOut EXCEPT !.tag = "Failure",
                                                 !.error = <<"JSON failed twice", gen.e1,
                                                             "Repair failed",
                                                             IF r.raised THEN r.text ELSE parsed.value>>,
                                                 !.raw_llm_output = gen.raw,
                                                 !.retrieved_chunks = gen.chunks,
                                                 !.prompt_used = build_prompt(gen.chunks)]]
    /\ UNCHANGED <<kb_rows, doc_rows, coll, dirs, asset_files, kb_count, ing, del, deleted_ok>>

\* POST /agent/generate_script up to the call of generate_selenium_script:
\* 400 unless a Document row (kb_id, html_filename, is_html) exists.
ScStart(kb_id, html_filename) ==
    /\ gen.pc = "idle"
    /\ LET found == \E i \in 1..Len(doc_rows) :
                       /\ doc_rows[i].kb_id = kb_id
                       /\ doc_rows[i].filename = html_filename
                       /\ doc_rows[i].is_html
       IN gen' =
            IF found
            THEN [GenIdle EXCEPT !.pc = "chat1", !.kind = "sc", !.kb_id = kb_id,
                                 !.html_filename = html_filename, !.resolved = TRUE]
            ELSE [GenIdle EXCEPT !.pc = "done", !.kind = "sc", !.kb_id = kb_id,
                                 !.html_filename = html_filename,
                                 !.out = [NoOut EXCEPT !.tag = "Http400"]]
    /\ UNCHANGED <<kb_rows, doc_rows, coll, dirs, asset_files, kb_count, ing, del, deleted_ok>>

\* generate_selenium_script: the first call, clean_code, the entry-point check.
ScChat1(r) ==
    /\ gen.pc = "chat1"
    /\ gen.kind = "sc"
    /\ LET cleaned == clean_code(r.text)
           g == [gen EXCEPT !.calls = @ + 1, !.ext = Append(@, "chat")]
       IN gen' =
            IF r.raised
            THEN [g EXCEPT !.pc = "done",
                           !.out = [NoOut EXCEPT !.tag = "Script", !.script = <<"# LLM Error">>]]
            ELSE IF HasEntryPoint(cleaned)
            THEN [g EXCEPT !.pc = "done",
                           !.out = [NoOut EXCEPT !.tag = "Script", !.script = <<cleaned>>]]
            ELSE [g EXCEPT !.pc = "repair", !.raw = cleaned]
    /\ UNCHANGED <<kb_rows, doc_rows, coll, dirs, asset_files, kb_count, ing, del, deleted_ok>>

\* generate_selenium_script: the repair call; its reply is returned as it is.
ScRepair(r) ==
    /\ gen.pc = "repair"
    /\ gen.kind = "sc"
    /\ LET g == [gen EXCEPT !.calls = @ + 1, !.ext = Append(@, "chat"),
                             !.repaired = r.text, !.pc = "done"]
       IN gen' =
            IF r.raised
            THEN [g EXCEPT !.out = [NoOut EXCEPT !.tag = "Script",
                                                 !.script = RepairFailedScript(gen.raw)]]
            ELSE [g EXCEPT !.out = [NoOut EXCEPT !.tag = "Script",
                                                 !.script = <<clean_code(r.text)>>]]
    /\ UNCHANGED <<kb_rows, doc_rows, coll, dirs, asset_files, kb_count, ing, del, deleted_ok>>

\* The response is sent; the request is over.
GenReturn ==
    /\ gen.pc = "done"
    /\ gen' = GenIdle
    /\ UNCHANGED <<kb_rows, doc_rows, coll, dirs, asset_files, kb_count, ing, del, deleted_ok>>

Next ==
    \/ \E n \in 1..MaxFiles : \E files \in [1..n -> UploadFiles] : IngestStart(files)
    \/ IngestMkdir
    \/ IngestFile
    \/ IngestCommit
    \/ IngestAddChunks
    \/ IngestAddFail
    \/ \E kb_id \in ReqKbIds : DeleteDb(kb_id)
    \/ DeleteVectors
    \/ DeleteFiles
    \/ DeleteCrash
    \/ \E kb_id \in ReqKbIds : \E top_k \in 1..MaxTopK : TcStart(kb_id, top_k)
    \/ \E kb_id \in ReqKbIds : TcEmbedFail(kb_id)
    \/ \E r \in TcReplies : TcChat1(r)
    \/ \E r \in TcReplies : TcRepair(r)
    \/ \E kb_id \in ReqKbIds : \E fn \in Filenames : ScStart(kb_id, fn)
    \/ \E r \in ScReplies : ScChat1(r)
    \/ \E r \in ScReplies : ScRepair(r)
    \/ GenReturn

Spec == Init /\ [][Next]_vars

\* ------------------------------------------------------------- chunking
\* An ingest request of one file whose parsed text has any length up to
\* MaxTextLen, past its registry commit and its mkdir.
InitChunk ==
    /\ kb_rows = {KbIdPool[1]}
    /\ doc_rows = <<>>
    /\ coll = {}
    /\ dirs = {KbIdPool[1]}
    /\ asset_files = {}
    /\ kb_count = 1
    /\ \E fn \in Filenames : \E len \in 0..MaxTextLen :
         ing = [IngIdle EXCEPT !.pc = "files", !.kb_id = KbIdPool[1],
                               !.files = <<[filename |-> fn, len |-> len]>>]
    /\ del = DelIdle
    /\ gen = GenIdle
    /\ deleted_ok = {}

NextChunk ==
    \/ IngestFile
    \/ IngestCommit
    \/ IngestAddChunks
    \/ IngestAddFail

SpecChunk == InitChunk /\ [][NextChunk]_vars

\* ------------------------------------------------------------- query
\* kb_id values query can be called with: None, or a string
QueryKbIds == {None} \cup ReqKbIds

\* doc_roles values query can be called with (None and [] are <<>>)
RoleLists == {<<>>, <<"main">>, <<"support">>, <<"main", "support">>, <<"support", "main">>}

\* vectordb.query called on its own: the query embedding, the where filter,
\* collection.query, the result list.
Query(kb_id, doc_roles, top_k) ==
    /\ gen.pc = "idle"
    /\ \E r \in QueryResults(top_k, kb_id, doc_roles) :
         gen' = [GenIdle EXCEPT !.pc = "done", !.kind = "query", !.kb_id = kb_id,
                                !.ext = <<"embed", "query">>, !.chunks = r,
                                !.out = [tag |-> "Results", doc_roles |-> doc_roles,
                                         where |-> BuildWhere(kb_id, doc_roles)]]
    /\ UNCHANGED <<kb_rows, doc_rows, coll, dirs, asset_files, kb_count, ing, del, deleted_ok>>

\* embed_text raises inside query, before the filter is built.
QueryEmbedFail(kb_id, doc_roles) ==
    /\ gen.pc = "idle"
    /\ gen' = [GenIdle EXCEPT !.pc = "done", !.kind = "query", !.kb_id = kb_id,
                              !.ext = <<"embed">>,
                              !.out = [tag |-> "Raised", doc_roles |-> doc_roles,
                                       where |-> NoWhere]]
    /\ UNCHANGED <<kb_rows, doc_rows, coll, dirs, asset_files, kb_count, ing, del, deleted_ok>>

\* Queries against the collection as ingests and deletions leave it.
NextQuery ==
    \/ \E n \in 1..MaxFiles : \E files \in [1..n -> UploadFiles] : IngestStart(files)
    \/ IngestMkdir
    \/ IngestFile
    \/ IngestCommit
    \/ IngestAddChunks
    \/ IngestAddFail
    \/ \E kb_id \in ReqKbIds : DeleteDb(kb_id)
    \/ DeleteVectors
    \/ DeleteFiles
    \/ DeleteCrash
    \/ \E kb_id \in QueryKbIds : \E doc_roles \in RoleLists : \E top_k \in 1..MaxTopK :
          Query(kb_id, doc_roles, top_k)
    \/ \E kb_id \in QueryKbIds : \E doc_roles \in RoleLists : QueryEmbedFail(kb_id, doc_roles)
    \/ GenReturn

SpecQuery == Init /\ [][NextQuery]_vars

\* ------------------------------------------------------------- delete again
\* POST /kb/delete for an id with no registry row: HTTPException 404, and
\* nothing else of delete_kb runs.
DeleteNotFound(kb_id) ==
    /\ del.pc = "idle"
    /\ kb_id \notin kb_rows
    /\ del' = [DelIdle EXCEPT !.pc = "http404", !.kb_id = kb_id]
    /\ UNCHANGED <<kb_rows, doc_rows, coll, dirs, asset_files, kb_count, ing, gen, deleted_ok>>

\* The 404 response is sent; the request is over.
DeleteReturn ==
    /\ del.pc = "http404"
    /\ del' = DelIdle
    /\ UNCHANGED <<kb_rows, doc_rows, coll, dirs, asset_files, kb_count, ing, gen, deleted_ok>>

\* Ingests and deletions, with the deletions that find no registry row.
NextStore ==
    \/ \E n \in 1..MaxFiles : \E files \in [1..n -> UploadFiles] : IngestStart(files)
    \/ IngestMkdir
    \/ IngestFile
    \/ IngestCommit
    \/ IngestAddChunks
    \/ IngestAddFail
    \/ \E kb_id \in ReqKbIds : DeleteDb(kb_id)
    \/ DeleteVectors
    \/ DeleteFiles
    \/ DeleteCrash
    \/ \E kb_id \in ReqKbIds : DeleteNotFound(kb_id)
    \/ DeleteReturn

SpecStore == Init /\ [][NextStore]_vars

\* ------------------------------------------------------------- claims
AllRoles == <<"main", "support">>

DocRowsOf(k) == {i \in 1..Len(doc_rows) : doc_rows[i].kb_id = k}

\* C1: a test-case request that reached the model ends in a Success,
\* RepairedSuccess or Failure value, never in an exception, whatever the two
\* model calls return.
C1_NeverRaises ==
    (gen.kind = "tc" /\ gen.pc = "done" /\ gen.calls >= 1)
        => gen.out.tag \in {"Success", "RepairedSuccess", "Failure"}

\* C2: when neither the first reply nor the repair reply parses, the request
\* returns a Failure (json_valid false, an error reason) that carries the
\* raw model output and the repair output.
C2_DoubleParseFailure ==
    (/\ gen.kind = "tc"
     /\ gen.pc = "done"
     /\ gen.calls = 2
     /\ ~_clean_and_parse_json(gen.raw).ok
     /\ gen.repaired # LLMError.text
     /\ ~_clean_and_parse_json(gen.repaired).ok)
        => /\ gen.out.tag = "Failure"
           /\ ~gen.out.json_valid
           /\ gen.out.error # Absent
           /\ gen.out.raw_llm_output = gen.raw
           /\ gen.out.repaired_output = gen.repaired

\* C3: a retrieval scoped to kb_id K, and so a test-case request for K,
\* returns only chunks whose kb_id is K, for every K a request can carry.
C3_ScopedRetrieval ==
    (gen.kind = "tc" /\ gen.pc # "idle") => \A c \in gen.chunks : c.kb_id = gen.kb_id

\* C4: once delete_kb(K) has returned ok, K has no registry row, no Document
\* row, no chunk and no assets directory, /kb/list omits K and a query
\* scoped to K is empty, in every later state.
C4_DeleteRemovesAll ==
    \A k \in deleted_ok :
        /\ k \notin kb_rows
        /\ DocRowsOf(k) = {}
        /\ \A c \in coll : c.kb_id # k
        /\ k \notin dirs
        /\ \A f \in asset_files : f[1] # k
        /\ k \notin list_kbs
        /\ QueryResults(MaxTopK, k, AllRoles) = {{}}

\* C5: in no state does the collection hold a chunk of a knowledge base
\* whose registry row no longer exists.
C5_NoOrphanChunks == \A c \in coll : c.kb_id \in kb_rows

\* C6: the chunks one file contributes carry chunk_index 0..n-1 in emission
\* order, however many files precede it in the upload.
C6_ChunkIndexPerFile ==
    [][(ing.pc = "files" /\ ing'.pc \in {"files", "commit"})
          => \A j \in 1..(Len(ing'.chunks) - Len(ing.chunks)) :
                ing'.chunks[Len(ing.chunks) + j].chunk_index = j - 1]_vars

CeilDiv(a, b) == (a + b - 1) \div b

ExpectedChunks(len) ==
    IF len = 0 THEN 0
    ELSE IF len <= 800 THEN 1
    ELSE CeilDiv(IF len - 150 > 0 THEN len - 150 ELSE 0, 650)

\* C7 as stated: a text of length 0 gives no chunk, a text of at most 800
\* characters one chunk covering it, a longer one
\* ceil(max(0, len - 150) / 650) chunks.
C7_ChunkCount ==
    (ing.pc = "commit" /\ Len(ing.files) = 1)
        => /\ Len(ing.chunks) = ExpectedChunks(ing.files[1].len)
           /\ (ing.files[1].len \in 1..800) => ing.chunks[1].document = <<0, ing.files[1].len>>

\* C7 as amended: a text of length len gives ceil(len / 650) chunks (none
\* when it is empty, one only up to 650 characters), chunk j is the slice
\* from 650 * (j - 1) of at most 800 characters, so the first chunk covers
\* a text of at most 800 characters.
C7_ChunkCountAmended ==
    (ing.pc = "commit" /\ Len(ing.files) = 1)
        => LET len == ing.files[1].len
           IN /\ Len(ing.chunks) = CeilDiv(len, 650)
              /\ \A j \in 1..Len(ing.chunks) :
                    ing.chunks[j].document =
                        <<650 * (j - 1), IF 650 * (j - 1) + 800 < len THEN 650 * (j - 1) + 800 ELSE len>>
              /\ (len \in 1..800) => ing.chunks[1].document = <<0, len>>

\* C7 witness: a text of 700 characters, which fits one window, has been
\* chunked into two chunks.
C7_Witness ==
    /\ ing.pc = "commit"
    /\ Len(ing.files) = 1
    /\ ing.files[1].len = 700
    /\ Len(ing.chunks) = 2

\* the filenames with a .html/.htm suffix, compared case-insensitively
HtmlNamed == {"ui.html", "LOGIN.HTM"}

\* rows is a sequence of Document rows in upload order: at most one primary
\* HTML, exactly the first HTML-named one; role main iff primary
RolesRight(rows) ==
    LET html == {i \in 1..Len(rows) : rows[i].filename \in HtmlNamed}
        primary == {i \in 1..Len(rows) : rows[i].is_primary_html}
    IN /\ Cardinality(primary) <= 1
       /\ html # {} => primary = {CHOOSE i \in html : \A j \in html : i <= j}
       /\ html = {} => primary = {}
       /\ \A i \in 1..Len(rows) :
            /\ rows[i].role \in Roles
            /\ rows[i].role = "main" <=> rows[i].is_primary_html

RECURSIVE RowsOfKb(_, _)
RowsOfKb(s, k) ==
    IF s = <<>> THEN <<>>
    ELSE IF Head(s).kb_id = k THEN <<Head(s)>> \o RowsOfKb(Tail(s), k)
         ELSE RowsOfKb(Tail(s), k)

\* C8: of the Documents one ingestion creates at most one is the primary HTML
\* (exactly one when a file is HTML-named), it is the first HTML-named file
\* of the upload, role is main iff primary and support otherwise, and each
\* chunk's doc_role is the role of the Document it was cut from.
C8_RolesAndPrimaryHtml ==
    /\ [](/\ RolesRight(ing.pending)
          /\ \A n \in 1..Len(KbIdPool) : RolesRight(RowsOfKb(doc_rows, KbIdPool[n])))
    /\ [][(ing.pc = "files" /\ ing'.pc \in {"files", "commit"})
             => \A j \in (Len(ing.chunks) + 1)..Len(ing'.chunks) :
                   ing'.chunks[j].doc_role = ing'.pending[Len(ing'.pending)].role]_vars

\* C8 witness: an upload whose second file is the first HTML-named one has
\* been committed and indexed.
C8_Witness ==
    /\ Len(doc_rows) = 2
    /\ doc_rows[1].filename = "spec.md" /\ doc_rows[1].role = "support"
    /\ doc_rows[2].filename = "LOGIN.HTM" /\ doc_rows[2].is_primary_html
    /\ \E c \in coll : c.doc_role = "main" /\ c.source_document = "LOGIN.HTM"
    /\ \E c \in coll : c.doc_role = "support"

\* the first reply failed its check: the parse (test cases) or the
\* entry-point test (script)
FirstReplyFailed ==
    /\ gen.raw # None
    /\ gen.kind = "tc" => ~_clean_and_parse_json(gen.raw).ok
    /\ gen.kind = "sc" => ~HasEntryPoint(gen.raw)

\* C9: a generation request of either engine makes at most two model calls,
\* and the second one only after the first reply failed its check.
C9_BoundedRetry ==
    /\ gen.calls <= 2
    /\ Len(SelectSeq(gen.ext, LAMBDA e : e = "chat")) = gen.calls
    /\ (gen.calls = 2 \/ gen.pc = "repair") => FirstReplyFailed

\* C9 witness: a test-case request has finished after its repair call.
C9_Witness == gen.kind = "tc" /\ gen.pc = "done" /\ gen.calls = 2

\* C10: a generation request whose kb_id or document does not resolve is
\* rejected before any embedding, vector query or model call.
C10_ScopeRejectedFirst ==
    (gen.pc # "idle" /\ ~gen.resolved)
        => gen.ext = <<>> /\ gen.pc = "done" /\ gen.out.tag = "Http400"
\* C11: a query with doc_roles = ['support'] returns no chunk whose doc_role
\* is main, whatever was ingested and deleted before and whatever kb_id
\* (None, empty, unknown, issued) it is called with.
C11_SupportOnly ==
    (gen.kind = "query" /\ gen.out.tag = "Results" /\ gen.out.doc_roles = <<"support">>)
        => \A c \in gen.chunks : c.doc_role # "main"

\* C11 witness: the collection holds a main chunk, and a support-scoped
\* query with a kb_id constraint has returned a support chunk.
C11_Witness ==
    /\ gen.kind = "query"
    /\ gen.out.tag = "Results"
    /\ gen.out.doc_roles = <<"support">>
    /\ gen.kb_id = KbIdPool[1]
    /\ \E c \in gen.chunks : c.doc_role = "support"
    /\ \E c \in coll : c.doc_role = "main"

\* the filter of the scope table for (kb, roles); kb is provided when it is
\* not None, roles when the list is not <<>>
ScopeTable(kb, roles) ==
    LET role_filter ==
            IF Len(roles) = 1 THEN Eq("doc_role", roles[1])
            ELSE Or([i \in 1..Len(roles) |-> Eq("doc_role", roles[i])])
    IN CASE kb = None /\ roles = <<>> -> NoWhere
         [] kb # None /\ roles = <<>> -> Eq("kb_id", kb)
         [] kb = None /\ roles # <<>> -> role_filter
         [] kb # None /\ roles # <<>> -> And(<<Eq("kb_id", kb), role_filter>>)

\* C12: the filter query builds from (kb_id, doc_roles) is the one of the
\* scope table (none, kb_id equality, role equality or OR-group, one AND of
\* the two), with one top-level operator at most, for every input.
C12_ScopeTable ==
    (gen.kind = "query" /\ gen.out.tag = "Results")
        => /\ gen.out.where = ScopeTable(gen.kb_id, gen.out.doc_roles)
           /\ gen.out.where.op \in {"none", "eq", "$or", "$and"}
\* C13: generate_selenium_script returns a string whenever a model call fails
\* (chat raises LLMError): the marked error placeholder when the first call
\* fails, the marked failure placeholder followed by the cleaned code of the
\* first reply when that reply lacks def run_test and the repair call fails.
C13_ScriptPlaceholders ==
    [][/\ \A r \in ScReplies :
             (r.raised /\ ScChat1(r))
                 => /\ gen'.pc = "done"
                    /\ gen'.out.tag = "Script"
                    /\ gen'.out.script = <<"# LLM Error">>
       /\ \A r \in ScReplies :
             (r.raised /\ ScRepair(r))
                 => /\ gen'.pc = "done"
                    /\ gen'.out.tag = "Script"
                    /\ ~HasEntryPoint(gen.raw)
                    /\ gen'.out.script = <<"# Failed to generate valid code.", gen.raw>>
       /\ (gen.kind = "sc" /\ gen.pc \in {"chat1", "repair"} /\ gen'.pc = "done")
             => gen'.out.tag = "Script"]_vars

\* C13 witness: the first reply had no def run_test, the repair call raised,
\* and the script returned is the marker followed by that reply's code.
C13_Witness ==
    /\ gen.kind = "sc"
    /\ gen.pc = "done"
    /\ gen.calls = 2
    /\ gen.repaired = LLMError.text
    /\ gen.out.script = <<"# Failed to generate valid code.", NoEntryCode>>

\* C14: when the first model call of generate_testcases_rag raises LLMError
\* the request is over at once with a Failure that carries the error reason,
\* the retrieved chunks and the prompt built from them; one model call and
\* one retrieval were made and none follows.
C14_LLMErrorShortCircuit ==
    /\ [][\A r \in TcReplies :
             (r.raised /\ TcChat1(r))
                 => /\ gen'.pc = "done"
                    /\ gen'.out.tag = "Failure"
                    /\ ~gen'.out.json_valid
                    /\ gen'.out.error = "LLM Error"
                    /\ gen'.out.retrieved_chunks = gen.chunks
                    /\ gen'.out.prompt_used.context
                          = {<<c.source_document, c.document>> : c \in gen.chunks}
                    /\ gen'.ext = <<"embed", "query", "chat">>
                    /\ gen'.calls = 1]_vars
    /\ [][(gen.kind = "tc" /\ gen.pc = "done" /\ gen' # gen) => gen' = GenIdle]_vars

\* C14 witness: a request that retrieved a chunk has ended in the LLM-error
\* Failure after its one model call.
C14_Witness ==
    /\ gen.kind = "tc"
    /\ gen.pc = "done"
    /\ gen.calls = 1
    /\ gen.out.tag = "Failure"
    /\ gen.out.error = "LLM Error"
    /\ gen.out.retrieved_chunks # {}
    /\ gen.out.prompt_used.context # {}

\* the replies a JSON array can be read from, and the array read
Parses(text) == text \in {"~~~json [1, 2,] ~~~", "[3]"}

ParseOf(text) ==
    CASE text = "~~~json [1, 2,] ~~~" -> "[1, 2]"
      [] text = "[3]" -> "[3]"

\* C15: the request ends in Success (json_valid, no repaired output, one
\* model call) exactly when the first reply parses, and in RepairedSuccess
\* (json_valid, the first raw output and the repaired output, two model
\* calls) exactly when the first reply does not parse and the repair reply
\* does; the test cases returned are the parse of that reply.
C15_OutcomeByParse ==
    [][/\ \A r \in TcReplies :
             TcChat1(r)
                 => /\ (gen'.pc = "done" /\ gen'.out.tag = "Success")
                          <=> (~r.raised /\ Parses(r.text))
                    /\ (~r.raised /\ Parses(r.text))
                          => /\ gen'.out.json_valid
                             /\ gen'.out.testcases = ParseOf(r.text)
                             /\ gen'.out.raw_llm_output = r.text
                             /\ gen'.out.repaired_output = Absent
                             /\ gen'.calls = 1
                    /\ (~r.raised /\ ~Parses(r.text))
                          => gen'.pc = "repair" /\ gen'.raw = r.text
       /\ \A r \in TcReplies :
             TcRepair(r)
                 => /\ ~Parses(gen.raw)
                    /\ gen'.pc = "done"
                    /\ gen'.out.tag = "RepairedSuccess" <=> (~r.raised /\ Parses(r.text))
                    /\ (~r.raised /\ Parses(r.text))
                          => /\ gen'.out.json_valid
                             /\ gen'.out.testcases = ParseOf(r.text)
                             /\ gen'.out.raw_llm_output = gen.raw
                             /\ gen'.out.repaired_output = r.text
                             /\ gen'.calls = 2
       /\ (gen.kind = "tc" /\ gen'.pc = "done" /\ gen.pc = "chat1")
             => gen'.out.tag # "RepairedSuccess"
       /\ (gen.kind = "tc" /\ gen'.pc = "done" /\ gen.pc = "repair")
             => gen'.out.tag # "Success"]_vars

\* C15 witness: the first reply did not parse, the repair reply was the bare
\* array, and the request returned its parse as a RepairedSuccess.
C15_Witness ==
    /\ gen.kind = "tc"
    /\ gen.pc = "done"
    /\ gen.out.tag = "RepairedSuccess"
    /\ gen.out.raw_llm_output = Prose
    /\ gen.out.repaired_output = PlainJson
    /\ gen.out.testcases = "[3]"
\* C16: while delete_kb(K) is past its commit, and in every state after it
\* has removed K's chunks (the request going on, returning or crashing), K
\* has no registry row, so /kb/list never shows a knowledge base whose
\* chunks delete_kb has removed.
C16_NotListableOnceChunksGone ==
    /\ [](del.pc \in {"vec", "files"} => del.kb_id \notin list_kbs)
    /\ \A n \in 1..Len(KbIdPool) :
          []((del.pc = "files" /\ del.kb_id = KbIdPool[n]) => [](KbIdPool[n] \notin list_kbs))

\* C16 witness: delete_kb has removed chunks of K and stands before rmtree,
\* where it goes on or crashes: K is not listed, has no chunk left, and its
\* directory is still there.
C16_Witness ==
    /\ del.pc = "files"
    /\ del.removed
    /\ del.kb_id \notin list_kbs
    /\ del.kb_id \in dirs
    /\ \A c \in coll : c.kb_id # del.kb_id
\* K was issued to an ingest request
Issued(k) == \E n \in 1..kb_count : KbIdPool[n] = k

\* nothing of K is left in the documents table, the collection or assets/
NothingLeft(k) ==
    /\ DocRowsOf(k) = {}
    /\ \A c \in coll : c.kb_id # k
    /\ \A f \in asset_files : f[1] # k
    /\ k \notin dirs

\* C17: when the ingest request that created K and a delete_kb(K) request
\* have both finished, in whatever order their steps ran, K has a Document
\* row, a chunk or a stored file only if it has its registry row.
C17_IngestDeleteRace ==
    \A k \in deleted_ok :
        (ing.pc = "idle" /\ del.pc = "idle") => (k \in kb_rows \/ NothingLeft(k))

\* C18: an ingest request that fails inside add_chunks leaves neither its
\* registry row nor any of its Document rows behind.
C18_IngestAllOrNothing ==
    [][IngestAddFail
          => /\ ing.kb_id \notin kb_rows'
             /\ \A i \in 1..Len(doc_rows') : doc_rows'[i].kb_id # ing.kb_id]_vars

\* delete_kb(K) was interrupted after its commit: K was issued, its row is
\* gone, no delete_kb(K) is past its commit and none returned ok
Interrupted(k) ==
    /\ Issued(k)
    /\ k \notin kb_rows
    /\ k \notin deleted_ok
    /\ ~(del.pc \in {"vec", "files"} /\ del.kb_id = k)

\* C19: a delete_kb(K) re-issued after an interrupted one, with no ingest in
\* flight, does not return before every chunk of K and the directory
\* assets/K are removed.
C19_DeleteRetry ==
    [][(/\ del.pc = "http404"
        /\ Interrupted(del.kb_id)
        /\ ing.pc = "idle"
        /\ del'.pc = "idle")
          => /\ \A c \in coll' : c.kb_id # del.kb_id
             /\ del.kb_id \notin dirs']_vars
====
